---- MODULE Spec2Model ----
(***************************************************************************)
(* Graphic instance registration (RegistrationCoordinator) of NodeCG.      *)
(*                                                                         *)
(* The coordinator keeps the replicant "graphics:instances", an array of   *)
(* GraphicsInstance records, and mutates it from socket handlers           *)
(* (graphic:registerSocket, disconnect), from the reap timer a disconnect  *)
(* schedules, and from the bundle manager's bundleChanged / gitChanged     *)
(* notifications.  Node runs every handler to completion, so each handler  *)
(* is one action.                                                          *)
(*                                                                         *)
(* A pathName is modelled as the sequence pathName.split('/'), so that     *)
(* "/bundles/b1/graphics/" is <<"", "bundles", "b1", "graphics", "">>.     *)
(* The diagnostic field timestamp of a request is never read by the        *)
(* coordinator and is left out of the requests.                            *)
(***************************************************************************)
EXTENDS Integers, Sequences, FiniteSets, TLC

VARIABLES
    bundles,    \* the bundle manager's registry: installed bundle name -> bundle
    instances,  \* this._instancesRep.value : sequence of GraphicsInstance
    connected,  \* ids of the sockets whose handlers are attached and live
    timers,     \* pending setTimeout(..., 1000) callbacks, oldest first
    lastEvent,  \* the handler that ran last: its socket.id, its cb(...) reply and
                \* the source line of the statement that ended it
    emitted     \* what the last handler emitted on app (this.app.emit), in order

vars == <<bundles, instances, connected, timers, lastEvent, emitted>>

(***************************************************************************)
(* Bounds of the model.                                                    *)
(***************************************************************************)
MaxTimers == 1                  \* setTimeout callbacks pending at once

(***************************************************************************)
(* Values.                                                                 *)
(***************************************************************************)
SocketIds == {"s1", "s2"}       \* socket.id of the connections
NoSocket == ""                  \* lastEvent.socketId of a handler that reads no socket.id
NoGit == "undefined"            \* bundle.git / regRequest.bundleGit absent
Hashes == {"abc", "def"}
Versions == {"1.0.0"}           \* bundle.version the manager may report
BundleNames == {"b1"}           \* bundles the manager may hold
UnknownBundleName == "nb"       \* a name the manager never holds

\* replies of a handler: cb(null, true), cb(null, false), cb(null),
\* no callback at all, or an exception leaving the handler
ReplyTrue == "true"
ReplyFalse == "false"
ReplyNull == "null"
NoReply == "none"
Threw == "TypeError"

\* `/bundles/${bundleName}/graphics/${file}`.split('/')
GraphicUrl(bundleName, file) == <<"", "bundles", bundleName, "graphics", file>>

\* the manifests package.json may declare for a bundle (nodecg.graphics)
Manifests(bundleName) ==
    { << [url |-> GraphicUrl(bundleName, "index.html"), singleInstance |-> TRUE],
         [url |-> GraphicUrl(bundleName, "other.html"), singleInstance |-> FALSE] >>,
      << [url |-> GraphicUrl(bundleName, "index.html"), singleInstance |-> FALSE],
         [url |-> GraphicUrl(bundleName, "other.html"), singleInstance |-> FALSE] >> }

\* window.location.pathname values a client may send
DeclaredPaths ==
    { GraphicUrl("b1", ""), GraphicUrl("b1", "index.html"), GraphicUrl("b1", "other.html") }

UndeclaredPath == GraphicUrl("b1", "missing.html")

RequestPaths == DeclaredPaths \cup {UndeclaredPath}

\* the registration requests of the clients: every path at the installed
\* version and revision, and for index.html also a client without git data,
\* a client of another version and a client naming an unknown bundle
RegRequests ==
    [ bundleName : BundleNames,
      pathName : RequestPaths,
      bundleVersion : {"1.0.0"},
      bundleGit : {"abc"} ]
    \cup
    [ bundleName : BundleNames,
      pathName : {GraphicUrl("b1", "index.html")},
      bundleVersion : {"1.0.0"},
      bundleGit : {NoGit} ]
    \cup
    [ bundleName : BundleNames,
      pathName : {GraphicUrl("b1", "index.html")},
      bundleVersion : {"1.1.0"},
      bundleGit : {"abc"} ]
    \cup
    [ bundleName : {UnknownBundleName},
      pathName : {GraphicUrl("b1", "index.html")},
      bundleVersion : {"1.0.0"},
      bundleGit : {"abc"} ]

RemoteAddress(socketId) == socketId    \* socket.request.connection.remoteAddress

(***************************************************************************)
(* Helpers of the coordinator.                                             *)
(***************************************************************************)

\* Array.prototype.find / findIndex over the indexes that pass the test:
\* the first of them, 1-based; 0 when none passes (JS: undefined, -1)
FindIndex(matching) ==
    IF matching = {}
    THEN 0
    ELSE CHOOSE i \in matching : \A j \in matching : i <= j

\* pathName.endsWith(`/${bundleName}/graphics/`)
EndsWithGraphicsDir(pathName, bundleName) ==
    /\ Len(pathName) >= 4
    /\ SubSeq(pathName, Len(pathName) - 2, Len(pathName)) = <<bundleName, "graphics", "">>

\* if (pathName.endsWith(...)) pathName += 'index.html'
NormalizePathName(pathName, bundleName) ==
    IF EndsWithGraphicsDir(pathName, bundleName)
    THEN [pathName EXCEPT ![Len(pathName)] = "index.html"]
    ELSE pathName

\* bundles.find(bundleName) is defined
BundleFound(bs, bundleName) == bundleName \in DOMAIN bs

\* a lookup that falls back to the bundle's first graphic when no url matches
findGraphicManifest_FirstGraphic(bs, pathName, bundleName) ==
    IF ~BundleFound(bs, bundleName)
    THEN 0
    ELSE LET graphics == bs[bundleName].graphics
             found == FindIndex({k \in 1..Len(graphics) : graphics[k].url = pathName})
         IN IF found = 0 /\ Len(graphics) > 0 THEN 1 ELSE found

\* findGraphicManifest: index into bundle.graphics, 0 when undefined
findGraphicManifest(bs, pathName, bundleName) ==
    IF ~BundleFound(bs, bundleName)
    THEN 0
    ELSE LET graphics == bs[bundleName].graphics
         IN FindIndex({k \in 1..Len(graphics) : graphics[k].url = pathName})

\* calcBundleGitMismatch: [threw, value]; reading .hash of an absent git throws
calcBundleGitMismatch(bundle, regRequest) ==
    IF regRequest.bundleGit # NoGit /\ bundle.git = NoGit
    THEN [threw |-> FALSE, value |-> TRUE]
    ELSE IF regRequest.bundleGit = NoGit /\ bundle.git # NoGit
    THEN [threw |-> FALSE, value |-> TRUE]
    ELSE IF regRequest.bundleGit = NoGit \/ bundle.git = NoGit
    THEN [threw |-> TRUE, value |-> FALSE]
    ELSE [threw |-> FALSE, value |-> regRequest.bundleGit # bundle.git]

calcBundleVersionMismatch(bundle, regRequest) ==
    bundle.version # regRequest.bundleVersion

\* calcBundleGitMismatch(..) || calcBundleVersionMismatch(..)
calcMismatch(bundle, regRequest) ==
    LET git == calcBundleGitMismatch(bundle, regRequest)
    IN IF git.threw
       THEN git
       ELSE [threw |-> FALSE,
             value |-> git.value \/ calcBundleVersionMismatch(bundle, regRequest)]

\* a lookup by socket.id that only sees the records a disconnect has closed
findRegistrationBySocketId_ClosedOnly(insts, socketId) ==
    FindIndex({i \in 1..Len(insts) : insts[i].socketId = socketId /\ ~insts[i].open})

\* a lookup by socket.id that skips the records a disconnect has closed
findRegistrationBySocketId_OpenOnly(insts, socketId) ==
    FindIndex({i \in 1..Len(insts) : insts[i].socketId = socketId /\ insts[i].open})

findRegistrationBySocketId(insts, socketId) ==
    FindIndex({i \in 1..Len(insts) : insts[i].socketId = socketId})

\* a lookup by pathName that forgets to test instance.open
findOpenRegistrationByPathName_AnyRecord(insts, pathName) ==
    FindIndex({i \in 1..Len(insts) : insts[i].pathName = pathName})

findOpenRegistrationByPathName(insts, pathName) ==
    FindIndex({i \in 1..Len(insts) : insts[i].pathName = pathName /\ insts[i].open})

addRegistration(insts, registration) ==
    Append(insts, [registration EXCEPT !.open = TRUE])

\* a removal that takes index 0 of findIndex for "not found"
removeRegistration_KeepsFirst(insts, socketId) ==
    LET registrationIndex == findRegistrationBySocketId(insts, socketId)
    IN IF registrationIndex <= 1
       THEN insts
       ELSE SubSeq(insts, 1, registrationIndex - 1)
                \o SubSeq(insts, registrationIndex + 1, Len(insts))

\* a removal without the registrationIndex < 0 guard: splice(-1, 1) takes
\* the last record of the table
removeRegistration_Unguarded(insts, socketId) ==
    LET registrationIndex == findRegistrationBySocketId(insts, socketId)
    IN IF registrationIndex = 0
       THEN SubSeq(insts, 1, Len(insts) - 1)
       ELSE SubSeq(insts, 1, registrationIndex - 1)
                \o SubSeq(insts, registrationIndex + 1, Len(insts))

removeRegistration(insts, socketId) ==
    LET registrationIndex == findRegistrationBySocketId(insts, socketId)
    IN IF registrationIndex = 0
       THEN insts
       ELSE SubSeq(insts, 1, registrationIndex - 1)
                \o SubSeq(insts, registrationIndex + 1, Len(insts))

\* _updateInstanceStatuses: forEach over the table; an exception in the
\* callback leaves the records before it updated and the rest untouched
RECURSIVE updateFrom(_, _, _)
updateFrom(bs, insts, i) ==
    IF i > Len(insts)
    THEN [threw |-> FALSE, value |-> insts]
    ELSE LET instance == insts[i]
             manifest == findGraphicManifest(bs, instance.pathName, instance.bundleName)
         IN IF ~BundleFound(bs, instance.bundleName)
            THEN updateFrom(bs, insts, i + 1)
            ELSE IF manifest = 0
            THEN updateFrom(bs, insts, i + 1)
            ELSE LET mismatch == calcMismatch(bs[instance.bundleName], instance)
                 IN IF mismatch.threw
                    THEN [threw |-> TRUE, value |-> insts]
                    ELSE updateFrom(bs,
                            [insts EXCEPT
                               ![i].potentiallyOutOfDate = mismatch.value,
                               ![i].singleInstance =
                                   bs[instance.bundleName].graphics[manifest].singleInstance],
                            i + 1)

updateInstanceStatuses(bs, insts) == updateFrom(bs, insts, 1)

Event(name, socketId, reply, line) ==
    [name |-> name, socketId |-> socketId, reply |-> reply, line |-> line]

(***************************************************************************)
(* Initial state: bundle b1 1.0.0 at revision abc is installed, its        *)
(* index.html graphic is singleInstance; no socket has connected.          *)
(***************************************************************************)
InitialBundle(bundleName) ==
    [ name |-> bundleName, version |-> "1.0.0", git |-> "abc",
      graphics |-> << [url |-> GraphicUrl(bundleName, "index.html"), singleInstance |-> TRUE],
                      [url |-> GraphicUrl(bundleName, "other.html"), singleInstance |-> FALSE] >> ]

Init ==
    /\ bundles = [b \in BundleNames |-> InitialBundle(b)]
    /\ instances = <<>>
    /\ connected = {}
    /\ timers = <<>>
    /\ lastEvent = Event("init", NoSocket, NoReply, 0)
    /\ emitted = <<>>

(***************************************************************************)
(* io.on('connection'): the handlers of the socket are attached.           *)
(***************************************************************************)
Connection(socketId) ==
    /\ socketId \notin connected
    /\ connected' = connected \cup {socketId}
    /\ lastEvent' = Event("connection", socketId, NoReply, 46)
    /\ emitted' = <<>>
    /\ UNCHANGED <<bundles, instances, timers>>

(***************************************************************************)
(* socket.on('graphic:registerSocket')                                     *)
(***************************************************************************)
Outcome(insts, reply, events, line) ==
    [instances |-> insts, reply |-> reply, emitted |-> events, line |-> line]

AppEvent(event, pathName) == [emitter |-> "app", event |-> event, payload |-> pathName]

IoEvent(event, payload) == [emitter |-> "io", event |-> event, payload |-> payload]

\* io.emit leaves the process; the model keeps what was emitted on app
AppEvents(events) ==
    LET OnApp(e) == e.emitter = "app"
    IN SelectSeq(events, OnApp)

\* the object literal handed to _addRegistration: later keys override the spread
NewRegistration(regRequest, socketId, singleInstance, potentiallyOutOfDate) ==
    [ ipv4 |-> RemoteAddress(socketId),
      socketId |-> socketId,
      singleInstance |-> singleInstance,
      potentiallyOutOfDate |-> potentiallyOutOfDate,
      open |-> TRUE ] @@ regRequest

registerSocket(bs, insts, socketId, regRequest) ==
    LET bundleName == regRequest.bundleName
        pathName == NormalizePathName(regRequest.pathName, bundleName)
        manifest == findGraphicManifest(bs, pathName, bundleName)
        existingSocketRegistration == findRegistrationBySocketId(insts, socketId)
        existingPathRegistration == findOpenRegistrationByPathName(insts, pathName)
    IN IF ~BundleFound(bs, bundleName)
       THEN Outcome(insts, ReplyFalse, <<>>, 57)
       ELSE IF manifest = 0
       THEN Outcome(insts, ReplyFalse, <<>>, 65)
       ELSE LET graphicManifest == bs[bundleName].graphics[manifest]
            IN IF existingPathRegistration # 0 /\ graphicManifest.singleInstance
               THEN IF insts[existingPathRegistration].socketId = socketId
                    THEN Outcome(insts, ReplyTrue, <<>>, 77)
                    ELSE Outcome(insts,
                                 IF insts[existingPathRegistration].open
                                 THEN ReplyFalse ELSE ReplyTrue,
                                 <<>>, 80)
               ELSE IF existingSocketRegistration # 0
               THEN Outcome([insts EXCEPT ![existingSocketRegistration].open = TRUE],
                            ReplyTrue, <<>>, 102)
               ELSE LET mismatch == calcMismatch(bs[bundleName], regRequest)
                    IN IF mismatch.threw
                       THEN Outcome(insts, Threw, <<>>, 252)
                       ELSE Outcome(
                               addRegistration(insts,
                                   NewRegistration(regRequest, socketId,
                                       graphicManifest.singleInstance, mismatch.value)),
                               ReplyTrue,
                               IF graphicManifest.singleInstance
                               THEN <<AppEvent("graphicOccupied", pathName)>>
                               ELSE <<>>,
                               102)

RegisterSocket(socketId, regRequest) ==
    /\ socketId \in connected
    /\ LET done == registerSocket(bundles, instances, socketId, regRequest)
       IN /\ instances' = done.instances
          /\ lastEvent' = Event("graphic:registerSocket", socketId, done.reply, done.line)
          /\ emitted' = AppEvents(done.emitted)
    /\ UNCHANGED <<bundles, connected, timers>>

(***************************************************************************)
(* socket.on('graphic:queryAvailability')                                  *)
(***************************************************************************)
queryAvailability(insts, pathName) ==
    IF findOpenRegistrationByPathName(insts, pathName) = 0 THEN ReplyTrue ELSE ReplyFalse

QueryAvailability(pathName) ==
    /\ connected # {}
    /\ lastEvent' = Event("graphic:queryAvailability", NoSocket,
                          queryAvailability(instances, pathName), 106)
    /\ emitted' = <<>>
    /\ UNCHANGED <<bundles, instances, connected, timers>>

(***************************************************************************)
(* The control plane: graphic:requestBundleRefresh, requestRefreshAll,     *)
(* requestRefresh, requestKill.  The handlers read no socket.id, so the    *)
(* actions only ask for some connected socket; they all reply cb(null),    *)
(* and lastEvent records them under one name and no line.                  *)
(***************************************************************************)
ControlPlane == "graphic:request*"

requestBundleRefresh(bs, insts, bundleName) ==
    IF ~BundleFound(bs, bundleName)
    THEN Outcome(insts, ReplyNull, <<>>, 112)
    ELSE Outcome(insts, ReplyNull, <<IoEvent("graphic:bundleRefresh", bundleName)>>, 116)

RequestBundleRefresh(bundleName) ==
    /\ connected # {}
    /\ LET done == requestBundleRefresh(bundles, instances, bundleName)
       IN /\ instances' = done.instances
          /\ lastEvent' = Event(ControlPlane, NoSocket, done.reply, 0)
          /\ emitted' = AppEvents(done.emitted)
    /\ UNCHANGED <<bundles, connected, timers>>

requestRefreshAll(insts, graphic) ==
    Outcome(insts, ReplyNull, <<IoEvent("graphic:refreshAll", graphic)>>, 122)

RequestRefreshAll(graphic) ==
    /\ connected # {}
    /\ LET done == requestRefreshAll(instances, graphic)
       IN /\ instances' = done.instances
          /\ lastEvent' = Event(ControlPlane, NoSocket, done.reply, 0)
          /\ emitted' = AppEvents(done.emitted)
    /\ UNCHANGED <<bundles, connected, timers>>

requestRefresh(insts, instance) ==
    Outcome(insts, ReplyNull, <<IoEvent("graphic:refresh", instance)>>, 128)

RequestRefresh(instance) ==
    /\ connected # {}
    /\ LET done == requestRefresh(instances, instance)
       IN /\ instances' = done.instances
          /\ lastEvent' = Event(ControlPlane, NoSocket, done.reply, 0)
          /\ emitted' = AppEvents(done.emitted)
    /\ UNCHANGED <<bundles, connected, timers>>

\* a kill that also drops the killed instance's record from the table
requestKill_Unregisters(insts, instance) ==
    Outcome(removeRegistration(insts, instance), ReplyNull,
            <<IoEvent("graphic:kill", instance)>>, 133)

requestKill(insts, instance) ==
    Outcome(insts, ReplyNull, <<IoEvent("graphic:kill", instance)>>, 133)

RequestKill(instance) ==
    /\ connected # {}
    /\ LET done == requestKill(instances, instance)
       IN /\ instances' = done.instances
          /\ lastEvent' = Event(ControlPlane, NoSocket, done.reply, 0)
          /\ emitted' = AppEvents(done.emitted)
    /\ UNCHANGED <<bundles, connected, timers>>

(***************************************************************************)
(* socket.on('disconnect') and the timer it sets.                          *)
(***************************************************************************)
\* a disconnect that drops the record at once instead of closing it
disconnect_Unregisters(insts, socketId) ==
    LET registration == findRegistrationBySocketId(insts, socketId)
    IN IF registration = 0
       THEN Outcome(insts, NoReply, <<>>, 140)
       ELSE Outcome(removeRegistration(insts, socketId),
                    NoReply,
                    IF insts[registration].singleInstance
                    THEN <<AppEvent("graphicAvailable", insts[registration].pathName)>>
                    ELSE <<>>,
                    150)

disconnect(insts, socketId) ==
    LET registration == findRegistrationBySocketId(insts, socketId)
    IN IF registration = 0
       THEN Outcome(insts, NoReply, <<>>, 140)
       ELSE Outcome([insts EXCEPT ![registration].open = FALSE],
                    NoReply,
                    IF insts[registration].singleInstance
                    THEN <<AppEvent("graphicAvailable", insts[registration].pathName)>>
                    ELSE <<>>,
                    150)

\* the handler, taken while fewer than limit timers are pending
DisconnectWithin(socketId, limit) ==
    /\ socketId \in connected
    /\ LET registration == findRegistrationBySocketId(instances, socketId)
           done == disconnect(instances, socketId)
       IN /\ registration # 0 => Len(timers) < limit
          /\ instances' = done.instances
          /\ emitted' = AppEvents(done.emitted)
          /\ timers' = IF registration = 0 THEN timers ELSE Append(timers, socketId)
          /\ lastEvent' = Event("disconnect", socketId, NoReply, done.line)
    /\ connected' = connected \ {socketId}
    /\ UNCHANGED bundles

Disconnect(socketId) == DisconnectWithin(socketId, MaxTimers)

\* the setTimeout callback: this._removeRegistration(socket.id).  All timers
\* have the same delay, so they fire in the order they were set.
Reap ==
    /\ timers # <<>>
    /\ instances' = removeRegistration(instances, Head(timers))
    /\ timers' = Tail(timers)
    /\ lastEvent' = Event("reap", Head(timers), NoReply,
                          IF findRegistrationBySocketId(instances, Head(timers)) = 0
                          THEN 185 ELSE 188)
    /\ emitted' = <<>>
    /\ UNCHANGED <<bundles, connected>>

(***************************************************************************)
(* The bundle manager.  It re-parses a bundle or its git data and emits    *)
(* 'bundleChanged' / 'gitChanged', to which the coordinator subscribed     *)
(* _updateInstanceStatuses; it removes a bundle and emits 'bundleRemoved', *)
(* to which the coordinator did not subscribe.                             *)
(***************************************************************************)
Notified(name, bs) ==
    LET done == updateInstanceStatuses(bs, instances)
    IN /\ instances' = done.value
       /\ lastEvent' = Event(name, NoSocket, IF done.threw THEN Threw ELSE NoReply,
                          IF done.threw THEN 252 ELSE 0)
       /\ emitted' = <<>>

BundleChanged(bundleName, version, graphics) ==
    /\ BundleFound(bundles, bundleName)
    /\ bundles' = [bundles EXCEPT ![bundleName].version = version,
                                  ![bundleName].graphics = graphics]
    /\ bundles' # bundles
    /\ Notified("bundleChanged", bundles')
    /\ UNCHANGED <<connected, timers>>

GitChanged(bundleName, git) ==
    /\ BundleFound(bundles, bundleName)
    /\ bundles' = [bundles EXCEPT ![bundleName].git = git]
    /\ bundles' # bundles
    /\ Notified("gitChanged", bundles')
    /\ UNCHANGED <<connected, timers>>

BundleRemoved(bundleName) ==
    /\ BundleFound(bundles, bundleName)
    /\ bundles' = [b \in DOMAIN bundles \ {bundleName} |-> bundles[b]]
    /\ lastEvent' = Event("bundleRemoved", NoSocket, NoReply, 0)
    /\ emitted' = <<>>
    /\ UNCHANGED <<instances, connected, timers>>

Next ==
    \/ \E socketId \in SocketIds : Connection(socketId)
    \/ \E socketId \in SocketIds, regRequest \in RegRequests :
           RegisterSocket(socketId, regRequest)
    \/ \E pathName \in DeclaredPaths : QueryAvailability(pathName)
    \/ \E bundleName \in BundleNames \cup {UnknownBundleName} :
           RequestBundleRefresh(bundleName)
    \/ \E graphic \in DeclaredPaths : RequestRefreshAll(graphic)
    \/ \E instance \in SocketIds : RequestRefresh(instance)
    \/ \E instance \in SocketIds : RequestKill(instance)
    \/ \E socketId \in SocketIds : Disconnect(socketId)
    \/ Reap
    \/ \E bundleName \in BundleNames, version \in Versions :
           \E graphics \in Manifests(bundleName) :
               BundleChanged(bundleName, version, graphics)
    \/ \E bundleName \in BundleNames, git \in Hashes \cup {NoGit} :
           GitChanged(bundleName, git)
    \/ \E bundleName \in BundleNames : BundleRemoved(bundleName)

Spec == Init /\ [][Next]_vars

\* the socket handlers and the timer alone: the bundle manager stays silent
NextSockets ==
    \/ \E socketId \in SocketIds : Connection(socketId)
    \/ \E socketId \in SocketIds, regRequest \in RegRequests :
           RegisterSocket(socketId, regRequest)
    \/ \E pathName \in DeclaredPaths : QueryAvailability(pathName)
    \/ \E bundleName \in BundleNames \cup {UnknownBundleName} :
           RequestBundleRefresh(bundleName)
    \/ \E graphic \in DeclaredPaths : RequestRefreshAll(graphic)
    \/ \E instance \in SocketIds : RequestRefresh(instance)
    \/ \E instance \in SocketIds : RequestKill(instance)
    \/ \E socketId \in SocketIds : Disconnect(socketId)
    \/ Reap

SpecSockets == Init /\ [][NextSockets]_vars

\* connections that register, drop and come back under the same socket.id
\* faster than the timers fire: one more callback may be pending
MaxTimersReuse == MaxTimers + 1

NextReuse ==
    \/ \E socketId \in SocketIds : Connection(socketId)
    \/ \E socketId \in SocketIds, regRequest \in RegRequests :
           RegisterSocket(socketId, regRequest)
    \/ \E socketId \in SocketIds : DisconnectWithin(socketId, MaxTimersReuse)
    \/ Reap

SpecReuse == Init /\ [][NextReuse]_vars

(***************************************************************************)
(* Vocabulary of the properties.                                           *)
(***************************************************************************)
Records == 1..Len(instances)

\* the graphic url a record's pathName resolves to
ViewOf(instance) == NormalizePathName(instance.pathName, instance.bundleName)

\* the graphic at url is declared singleInstance by the current manifest
IsExclusiveView(bundleName, url) ==
    LET manifest == findGraphicManifest(bundles, url, bundleName)
    IN manifest # 0 /\ bundles[bundleName].graphics[manifest].singleInstance

OpenAtPath(insts, pathName) ==
    {i \in 1..Len(insts) : insts[i].open /\ insts[i].pathName = pathName}

OpenAtView(insts, url) ==
    {i \in 1..Len(insts) : insts[i].open /\ ViewOf(insts[i]) = url}

OwnedBy(insts, socketId) ==
    {i \in 1..Len(insts) : insts[i].socketId = socketId}

\* socket ids of the open records that resolve to url
OpenOwners(insts, url) == {insts[i].socketId : i \in OpenAtView(insts, url)}

\* url is among the graphics the bundle declares
DeclaredView(bundleName, url) ==
    /\ BundleFound(bundles, bundleName)
    /\ \E k \in 1..Len(bundles[bundleName].graphics) :
           bundles[bundleName].graphics[k].url = url

Views == {NormalizePathName(pathName, bundleName) :
              pathName \in DeclaredPaths, bundleName \in BundleNames}

PendingReap(socketId) == \E t \in 1..Len(timers) : timers[t] = socketId

Registered(name) == lastEvent.name = name

\* socketId owns no record and awaits no reap, no record of the graphic at url
\* is open, and a closed singleInstance record of it awaits its reap
GraceWindow(url, socketId) ==
    /\ OwnedBy(instances, socketId) = {}
    /\ ~PendingReap(socketId)
    /\ OpenAtView(instances, url) = {}
    /\ \E i \in Records :
           /\ ~instances[i].open
           /\ instances[i].singleInstance
           /\ ViewOf(instances[i]) = url
           /\ PendingReap(instances[i].socketId)

\* the graphic at url has one open record, and socketId owns it
SoleOpenOwner(insts, url, socketId) ==
    /\ Cardinality(OpenAtView(insts, url)) = 1
    /\ OpenOwners(insts, url) = {socketId}

(***************************************************************************)
(* C1: under register, disconnect and reap events alone, a pathName whose  *)
(* graphic is singleInstance never has more than one record with           *)
(* open = true.                                                            *)
(***************************************************************************)
C1_AtMostOneOpenOnExclusivePath ==
    \A bundleName \in BundleNames, pathName \in RequestPaths :
        IsExclusiveView(bundleName, NormalizePathName(pathName, bundleName))
            => Cardinality(OpenAtPath(instances, pathName)) <= 1

(***************************************************************************)
(* C2: under every interleaving of socket, timer and bundle manager        *)
(* events, no pathName has two records that are both open and              *)
(* singleInstance.                                                         *)
(***************************************************************************)
C2_NoTwoOpenExclusive ==
    \A i, j \in Records :
        /\ i # j
        /\ instances[i].pathName = instances[j].pathName
        /\ instances[i].open /\ instances[j].open
        => ~(instances[i].singleInstance /\ instances[j].singleInstance)

(***************************************************************************)
(* C3: a register for a singleInstance graphic of which another socket     *)
(* holds an open record is answered false and leaves the table as it was.  *)
(***************************************************************************)
C3_ConflictDeclinedUnchanged ==
    [][\A socketId \in SocketIds, regRequest \in RegRequests :
          LET url == NormalizePathName(regRequest.pathName, regRequest.bundleName)
          IN ( /\ RegisterSocket(socketId, regRequest)
               /\ IsExclusiveView(regRequest.bundleName, url)
               /\ \E i \in OpenAtView(instances, url) : instances[i].socketId # socketId )
             => /\ lastEvent'.reply = ReplyFalse
                /\ instances' = instances ]_vars

(***************************************************************************)
(* C4: a socket that registers the same request twice is accepted both     *)
(* times, and after the second register the table has the same length and  *)
(* exactly one record of that socket.                                      *)
(***************************************************************************)
C4_ReRegisterKeepsOneRecord ==
    \A socketId \in connected, regRequest \in RegRequests :
        LET first == registerSocket(bundles, instances, socketId, regRequest)
            second == registerSocket(bundles, first.instances, socketId, regRequest)
        IN first.reply = ReplyTrue
               => /\ second.reply = ReplyTrue
                  /\ Len(second.instances) = Len(first.instances)
                  /\ Cardinality(OwnedBy(second.instances, socketId)) = 1

\* a socket has just registered again the singleInstance graphic it holds
C4_ReRegistered ==
    /\ Registered("graphic:registerSocket")
    /\ lastEvent.line = 77
    /\ lastEvent.reply = ReplyTrue
    /\ Cardinality(OwnedBy(instances, lastEvent.socketId)) = 1

(***************************************************************************)
(* C5: while the closed record of a disconnected socket A awaits its reap, *)
(* a register for the same singleInstance graphic by a socket B that has   *)
(* no record is answered true and leaves exactly one open record for the   *)
(* graphic, owned by B; the reap of A keeps it so.                         *)
(***************************************************************************)
C5_GraceWindowReuse ==
    [][ /\ lastEvent'.name = "graphic:registerSocket"
           => \A regRequest \in RegRequests :
                LET socketId == lastEvent'.socketId
                    url == NormalizePathName(regRequest.pathName, regRequest.bundleName)
                IN ( /\ IsExclusiveView(regRequest.bundleName, url)
                     /\ GraceWindow(url, socketId)
                     /\ RegisterSocket(socketId, regRequest) )
                   => /\ lastEvent'.reply = ReplyTrue
                      /\ SoleOpenOwner(instances', url, socketId)
        /\ lastEvent'.name = "reap"
           => \A url \in Views, socketId \in SocketIds :
                ( /\ Reap
                  /\ ~PendingReap(socketId)
                  /\ SoleOpenOwner(instances, url, socketId) )
                => SoleOpenOwner(instances', url, socketId) ]_vars

(***************************************************************************)
(* C6 as specified: graphic:queryAvailability of pathName p replies true   *)
(* exactly when the table has a record with pathName p that is open and    *)
(* singleInstance.                                                         *)
(***************************************************************************)
C6_TrueIffOpenExclusive ==
    [][ lastEvent'.name = "graphic:queryAvailability"
        => \A pathName \in DeclaredPaths :
             QueryAvailability(pathName)
             => ( lastEvent'.reply = ReplyTrue
                  <=> \E i \in OpenAtPath(instances, pathName) :
                          instances[i].singleInstance ) ]_vars

(***************************************************************************)
(* C6 as amended: graphic:queryAvailability of pathName p replies true     *)
(* exactly when the table has no open record with pathName p,              *)
(* singleInstance or not; so it replies true once the disconnect of the    *)
(* only open record of p has run, before the reap.                         *)
(***************************************************************************)
C6_TrueIffNoOpenRecord ==
    [][ lastEvent'.name = "graphic:queryAvailability"
        => \A pathName \in DeclaredPaths :
             QueryAvailability(pathName)
             => ( lastEvent'.reply = ReplyTrue
                  <=> OpenAtPath(instances, pathName) = {} ) ]_vars

\* a query was answered true between a disconnect and its reap
C6_AvailableBeforeReap ==
    /\ Registered("graphic:queryAvailability")
    /\ lastEvent.reply = ReplyTrue
    /\ timers # <<>>
    /\ \E i \in Records : ~instances[i].open /\ instances[i].singleInstance
    /\ \A i \in Records : ~instances[i].open

(***************************************************************************)
(* C7: a register that names a bundle the manager does not hold, or a      *)
(* pathName that does not resolve to a graphic the bundle declares, is     *)
(* answered false and leaves the table as it was.  Stated from the other   *)
(* side: a register step that is answered otherwise, or changes the        *)
(* table, is not the handling of such a request.                           *)
(***************************************************************************)
C7_UnknownViewDeclined ==
    [][ ( /\ lastEvent'.name = "graphic:registerSocket"
          /\ ~( /\ lastEvent'.reply = ReplyFalse
                /\ instances' = instances ) )
        => \A regRequest \in RegRequests :
             LET url == NormalizePathName(regRequest.pathName, regRequest.bundleName)
             IN ~DeclaredView(regRequest.bundleName, url)
                => ~RegisterSocket(lastEvent'.socketId, regRequest) ]_vars

\* a register for an undeclared graphic was declined while records exist
C7_Declined ==
    /\ Registered("graphic:registerSocket")
    /\ lastEvent.line = 65
    /\ lastEvent.reply = ReplyFalse
    /\ instances # <<>>

(***************************************************************************)
(* C8: once a bundleChanged or gitChanged notification has been handled,   *)
(* a record registered with a revision, of an installed bundle that has a  *)
(* revision and the version the record was registered with, is             *)
(* potentiallyOutOfDate exactly when the two revisions differ.             *)
(***************************************************************************)
C8_StaleFollowsRevision ==
    lastEvent.name \in {"bundleChanged", "gitChanged"}
    => \A i \in Records :
         LET instance == instances[i]
         IN ( /\ BundleFound(bundles, instance.bundleName)
              /\ instance.bundleGit \in Hashes
              /\ bundles[instance.bundleName].git \in Hashes
              /\ instance.bundleVersion = bundles[instance.bundleName].version )
            => ( instance.potentiallyOutOfDate
                 <=> instance.bundleGit # bundles[instance.bundleName].git )

(***************************************************************************)
(* C9: every graphic:registerSocket ends with one reply, true or false,    *)
(* and never with an exception; a record added when neither the request    *)
(* nor the bundle has a revision is potentiallyOutOfDate exactly when the  *)
(* versions differ.                                                        *)
(***************************************************************************)
C9_RegisterRepliesWithoutThrowing ==
    [][ lastEvent'.name = "graphic:registerSocket"
        => /\ lastEvent'.reply \in {ReplyTrue, ReplyFalse}
           /\ \A regRequest \in RegRequests :
                ( /\ regRequest.bundleGit = NoGit
                  /\ BundleFound(bundles, regRequest.bundleName)
                  /\ bundles[regRequest.bundleName].git = NoGit
                  /\ RegisterSocket(lastEvent'.socketId, regRequest)
                  /\ Len(instances') = Len(instances) + 1 )
                => ( instances'[Len(instances')].potentiallyOutOfDate
                     <=> bundles[regRequest.bundleName].version
                            # regRequest.bundleVersion ) ]_vars

(***************************************************************************)
(* C10: graphic:queryAvailability and the four graphic:request* handlers   *)
(* leave the table of records exactly as it was: a step that changes the   *)
(* table is a step of none of them.                                        *)
(***************************************************************************)
C10_ReadOnlyOperations ==
    [][ instances' # instances
        => ~( \/ \E pathName \in DeclaredPaths : QueryAvailability(pathName)
              \/ \E bundleName \in BundleNames \cup {UnknownBundleName} :
                     RequestBundleRefresh(bundleName)
              \/ \E graphic \in DeclaredPaths : RequestRefreshAll(graphic)
              \/ \E instance \in SocketIds : RequestRefresh(instance)
              \/ \E instance \in SocketIds : RequestKill(instance) ) ]_vars

\* a graphic:request* handler has run while an open and a closed record exist
C10_RequestedWithRecords ==
    /\ Registered(ControlPlane)
    /\ lastEvent.reply = ReplyNull
    /\ \E i \in Records : instances[i].open
    /\ \E i \in Records : ~instances[i].open

(***************************************************************************)
(* C11: the reap timer never removes a record that is open when it fires:  *)
(* a record its socket re-opened between the disconnect and the reap is    *)
(* still in the table after the reap.                                      *)
(***************************************************************************)
C11_ReapSparesOpenRecords ==
    [][ ( /\ lastEvent'.name = "reap"
          /\ Reap )
        => \A i \in Records :
             instances[i].open
             => \E j \in 1..Len(instances') : instances'[j] = instances[i] ]_vars

(***************************************************************************)
(* C12: after a graphic:registerSocket answered true to socket c for the   *)
(* graphic url p, the table holds an open record of c that resolves to p,  *)
(* also when c owned a record of another graphic before.                   *)
(***************************************************************************)
C12_AcceptedMeansRegistered ==
    [][ ( /\ lastEvent'.name = "graphic:registerSocket"
          /\ lastEvent'.reply = ReplyTrue )
        => \A regRequest \in RegRequests :
             LET socketId == lastEvent'.socketId
                 url == NormalizePathName(regRequest.pathName, regRequest.bundleName)
             IN RegisterSocket(socketId, regRequest)
                => \E i \in OpenAtView(instances', url) :
                       instances'[i].socketId = socketId ]_vars

(***************************************************************************)
(* C13: once a bundleChanged or gitChanged notification has been handled,  *)
(* every open record of an installed bundle has singleInstance equal to    *)
(* the manifest's flag of the graphic the record resolves to, and          *)
(* potentiallyOutOfDate true exactly when its version or its revision      *)
(* differs from the bundle's.                                              *)
(***************************************************************************)
C13_StatusesFollowBundle ==
    lastEvent.name \in {"bundleChanged", "gitChanged"}
    => \A i \in Records :
         LET instance == instances[i]
             bundleName == instance.bundleName
         IN ( /\ instance.open
              /\ DeclaredView(bundleName, ViewOf(instance)) )
            => /\ instance.singleInstance
                   <=> IsExclusiveView(bundleName, ViewOf(instance))
               /\ instance.potentiallyOutOfDate
                   <=> \/ instance.bundleVersion # bundles[bundleName].version
                       \/ instance.bundleGit # bundles[bundleName].git

(***************************************************************************)
(* The timer of Node fires every callback that was set: the reap is        *)
(* weakly fair.                                                            *)
(***************************************************************************)
SpecFair == Spec /\ WF_vars(Reap)

SpecSocketsFair == SpecSockets /\ WF_vars(Reap)

\* socketId owns a record a disconnect has closed
Closed(socketId) == \E i \in OwnedBy(instances, socketId) : ~instances[i].open

(***************************************************************************)
(* C14: with the reap timer fair, a record closed by a disconnect is       *)
(* eventually re-opened or removed: no closed record stays for ever.       *)
(***************************************************************************)
C14_ClosedEventuallyRemoved ==
    \A socketId \in SocketIds : Closed(socketId) ~> ~Closed(socketId)

\* the reap of a socket has fired and its record is gone
C14_Reaped ==
    /\ Registered("reap")
    /\ OwnedBy(instances, lastEvent.socketId) = {}
    /\ timers = <<>>

(***************************************************************************)
(* C15: when two connected sockets each send a register for the same       *)
(* singleInstance graphic that has no open record, then in either order    *)
(* of handling one is answered true and the other false, and the graphic   *)
(* has exactly one open record afterwards.                                 *)
(***************************************************************************)
C15_OneOfTwoWins ==
    \A a \in connected, b \in connected, ra \in RegRequests, rb \in RegRequests :
        LET url == NormalizePathName(ra.pathName, ra.bundleName)
            first == registerSocket(bundles, instances, a, ra)
            second == registerSocket(bundles, first.instances, b, rb)
        IN ( /\ a # b
             /\ ra.bundleName = rb.bundleName
             /\ NormalizePathName(rb.pathName, rb.bundleName) = url
             /\ IsExclusiveView(ra.bundleName, url)
             /\ OpenAtView(instances, url) = {} )
           => /\ {first.reply, second.reply} = {ReplyTrue, ReplyFalse}
              /\ Cardinality(OpenAtView(second.instances, url)) = 1

(***************************************************************************)
(* C16: the table never holds two records with the same socketId, open or  *)
(* closed, and a graphic:registerSocket lengthens the table only when the  *)
(* caller owned no record.                                                 *)
(***************************************************************************)
C16_OneRecordPerSocket ==
    [][ /\ \A socketId \in SocketIds :
              Cardinality(OwnedBy(instances', socketId)) <= 1
        /\ ( /\ lastEvent'.name = "graphic:registerSocket"
             /\ Len(instances') > Len(instances) )
           => /\ OwnedBy(instances, lastEvent'.socketId) = {}
              /\ Len(instances') = Len(instances) + 1
              /\ instances'[Len(instances')].socketId = lastEvent'.socketId ]_vars

\* a socket registered again while the reap of its record is pending
C16_RegisteredAgain ==
    /\ Registered("graphic:registerSocket")
    /\ lastEvent.line = 102
    /\ lastEvent.reply = ReplyTrue
    /\ PendingReap(lastEvent.socketId)
    /\ Cardinality(OwnedBy(instances, lastEvent.socketId)) = 1
    /\ Len(instances) > 1

(***************************************************************************)
(* C17: the disconnect of a socket that owns no record leaves the table    *)
(* as it was; otherwise it sets open = false on the socket's record in     *)
(* the same step and changes nothing else: no other field, no other        *)
(* record, no record added or removed.                                     *)
(***************************************************************************)
C17_DisconnectOnlyCloses ==
    [][ lastEvent'.name = "disconnect"
        => \A socketId \in SocketIds :
             Disconnect(socketId)
             => IF OwnedBy(instances, socketId) = {}
                THEN instances' = instances
                ELSE /\ Len(instances') = Len(instances)
                     /\ \A i \in Records :
                          instances'[i] =
                              IF instances[i].socketId = socketId
                              THEN [instances[i] EXCEPT !.open = FALSE]
                              ELSE instances[i] ]_vars

\* a socket's record was just closed while another socket's record is open
C17_ClosedBesideOpen ==
    /\ Registered("disconnect")
    /\ lastEvent.line = 150
    /\ \E i \in OwnedBy(instances, lastEvent.socketId) : ~instances[i].open
    /\ \E i \in Records :
           instances[i].socketId # lastEvent.socketId /\ instances[i].open

\* no connected socket that owns a closed record can have it opened by a
\* graphic:registerSocket and closed once more by its next disconnect
NoSecondClose(bs, insts, sockets) ==
    \A socketId \in sockets, regRequest \in RegRequests :
        LET registered == registerSocket(bs, insts, socketId, regRequest).instances
            disconnected == disconnect(registered, socketId).instances
        IN \A i \in OwnedBy(insts, socketId) :
             ~insts[i].open
             => ~( /\ i \in OwnedBy(registered, socketId)
                   /\ registered[i].open
                   /\ ~disconnected[i].open )

(***************************************************************************)
(* C18: the open flag of a record goes from true to false only in the      *)
(* disconnect handler of the socket that owns it, and at most once while   *)
(* the record is in the table: no register and disconnect of its socket    *)
(* close a record that was closed before.                                  *)
(***************************************************************************)
C18_ClosedOnce ==
    [][ /\ \A i \in Records, j \in 1..Len(instances') :
              ( /\ instances'[j].socketId = instances[i].socketId
                /\ instances[i].open
                /\ ~instances'[j].open )
              => /\ lastEvent'.name = "disconnect"
                 /\ lastEvent'.socketId = instances[i].socketId
        /\ NoSecondClose(bundles', instances', connected') ]_vars

(***************************************************************************)
(* C19: a reap for a socket that owns no record leaves the table as it     *)
(* was, and a reap never removes or changes the record of a socket other   *)
(* than the one whose disconnect set the timer.                            *)
(***************************************************************************)
C19_ReapTouchesOwnRecordOnly ==
    [][ ( /\ lastEvent'.name = "reap"
          /\ Reap )
        => LET NotOwn(instance) == instance.socketId # Head(timers)
           IN /\ OwnedBy(instances, Head(timers)) = {} => instances' = instances
              /\ SelectSeq(instances', NotOwn) = SelectSeq(instances, NotOwn) ]_vars

\* a timer fired for a socket whose record was gone, beside another record
C19_ReapedNothing ==
    /\ Registered("reap")
    /\ lastEvent.line = 185
    /\ instances # <<>>

(***************************************************************************)
(* C20: a graphic:registerSocket for a graphic that an installed bundle    *)
(* declares and that is not singleInstance is answered true from every     *)
(* socket, however many open records the graphic already has.              *)
(***************************************************************************)
C20_NonExclusiveAlwaysAccepted ==
    [][ lastEvent'.name = "graphic:registerSocket"
        => \A regRequest \in RegRequests :
             LET url == NormalizePathName(regRequest.pathName, regRequest.bundleName)
             IN ( /\ DeclaredView(regRequest.bundleName, url)
                  /\ ~IsExclusiveView(regRequest.bundleName, url)
                  /\ RegisterSocket(lastEvent'.socketId, regRequest) )
                => lastEvent'.reply = ReplyTrue ]_vars

\* events, the emissions of one handler, hold the app event for the graphic url
Emitted(events, event, url) ==
    \E k \in 1..Len(events) : events[k] = AppEvent(event, url)

\* once a handler has emitted graphicAvailable for url, no socket's next
\* graphic:registerSocket and disconnect emit graphicAvailable for url again
\* without a graphicOccupied for url between the two
NoRepeatedAvailable(bs, insts, events) ==
    \A url \in Views, socketId \in SocketIds, regRequest \in RegRequests :
        LET registered == registerSocket(bs, insts, socketId, regRequest)
            disconnected == disconnect(registered.instances, socketId)
        IN Emitted(events, "graphicAvailable", url)
           => ~( /\ ~Emitted(AppEvents(registered.emitted), "graphicOccupied", url)
                 /\ Emitted(AppEvents(disconnected.emitted), "graphicAvailable", url) )

(***************************************************************************)
(* C21: while the bundle manager is silent, a step after which a           *)
(* singleInstance graphic has an open record, having had none before,      *)
(* emits graphicOccupied for the graphic's url; a disconnect that closes   *)
(* the open record of a singleInstance graphic emits graphicAvailable for  *)
(* its url; and the events of a url alternate: graphicAvailable is not     *)
(* emitted twice without a graphicOccupied between.                        *)
(***************************************************************************)
C21_NotificationsTrackTable ==
    [][ /\ \A bundleName \in BundleNames, url \in Views :
              ( /\ IsExclusiveView(bundleName, url)
                /\ OpenAtView(instances, url) = {}
                /\ OpenAtView(instances', url) # {} )
              => Emitted(emitted', "graphicOccupied", url)
        /\ lastEvent'.name = "disconnect"
              => \A i \in Records :
                   ( /\ instances[i].open
                     /\ i \in OwnedBy(instances', lastEvent'.socketId)
                     /\ ~instances'[i].open
                     /\ IsExclusiveView(instances[i].bundleName, ViewOf(instances[i])) )
                   => Emitted(emitted', "graphicAvailable", ViewOf(instances[i]))
        /\ NoRepeatedAvailable(bundles', instances', emitted') ]_vars

====
